---- MODULE Spec2Model ----
(***************************************************************************)
(* The reconciliation scripts of NFLPenaltyInsights as one state machine.  *)
(* One behaviour is one run of one script's main():                        *)
(*   clean_penalties          generate_game_id / verify_and_adjust_game_id *)
(*   clean_drives             the penalty loop over the drive table        *)
(*   clean_team_performances  the penalty loop over the team rows          *)
(*   clean_games              preprocess_data, the per-category columns    *)
(*   scrape_games             the drive tables of a game page, exported    *)
(*   scrape_penalties         the update of the raw penalties.csv          *)
(* A Python str is a sequence of symbols; a symbol is one character or an  *)
(* underscore-free word that no script takes apart ("KC", "Super Bowl").   *)
(* split and join are computed on it.  Row labels are 0-based as in pandas.*)
(***************************************************************************)
EXTENDS Integers, Sequences, FiniteSets, TLC

VARIABLES
    script,                 \* which main() this run executes
    pc,                     \* "loop", "done" (output written) or "crashed"
    n,                      \* penalty rows iterated so far
    valid_game_ids,         \* clean_penalties: set(game_details['game_id'])
    penalties,              \* clean_penalties: each row as read (raw), after
                            \* generate_game_id (gen) and at the end of
                            \* apply_adjustments (adj)
    drives_df,              \* clean_drives: the drive table with its counters
    team_performances_df,   \* clean_team_performances: the team rows
    row,                    \* the penalty row of the last loop iteration
    game_id,                \* clean_drives: resolved id of that iteration
    drive_index,            \* clean_drives: drive_index when the while ended
    touched,                \* the cells that iteration changed, each as
                            \* <<label, column, new value - old value>>
    found,                  \* iterations that did not take the continue
    csv,                    \* what to_csv wrote, <<>> before
    site,                   \* what the scraped site returns
    batches,                \* scrape_games.main: the three lists it exports
    driver,                 \* scrape_games.main: the shared WebDriver
    html_source             \* scrape_games.main: html_source of line 408

vars == <<script, pc, n, valid_game_ids, penalties, drives_df,
          team_performances_df, row, game_id, drive_index, touched, found, csv,
          site, batches, driver, html_source>>

----------------------------------------------------------------------------
(* Bounds of the model *)

MaxDrives == 3
MaxTeamRows == 2
MaxPenalties == 2
MaxTeamDrives == 2
MaxRuns == 2
MaxUrls == 2

----------------------------------------------------------------------------
(* Python strings *)

\* sep.join(parts)
RECURSIVE Join(_, _)
Join(parts, sep) ==
    IF Len(parts) = 0 THEN <<>>
    ELSE IF Len(parts) = 1 THEN parts[1]
    ELSE parts[1] \o <<sep>> \o Join(Tail(parts), sep)

\* s.split(sep)
RECURSIVE Split(_, _)
Split(s, sep) ==
    IF \A i \in 1..Len(s) : s[i] # sep THEN <<s>>
    ELSE LET k == CHOOSE i \in 1..Len(s) :
                      s[i] = sep /\ \A j \in 1..(i - 1) : s[j] # sep
         IN  <<SubSeq(s, 1, k - 1)>> \o Split(SubSeq(s, k + 1, Len(s)), sep)

Digits == <<"0", "1", "2", "3", "4", "5", "6", "7", "8", "9">>

\* str(i) of a non-negative int, as an f-string formats it
RECURSIVE IntToStr(_)
IntToStr(i) ==
    IF i < 10 THEN <<Digits[i + 1]>>
    ELSE IntToStr(i \div 10) \o <<Digits[(i % 10) + 1]>>

\* A cell value read from a CSV: a str or an int
PyStr(s) == [t |-> "str", v |-> s]
PyInt(i) == [t |-> "int", v |-> i]

\* f"{x}"
Format(x) == IF x.t = "int" THEN IntToStr(x.v) ELSE x.v

----------------------------------------------------------------------------
(* clean_penalties.py *)

\* float('nan') in a column of str (no cell of these columns is the empty str)
NaNCell == <<>>

\* map_ids, lines 31-55: the entries of the two dicts for three teams
team_id_mapping ==
    (<<"kansas-city-chiefs">> :> <<"KC">>)
        @@ (<<"san-francisco-49ers">> :> <<"SF">>)
        @@ (<<"las-vegas-raiders">> :> <<"LV">>)

opp_id_mapping ==
    (<<"Kansas City">> :> <<"KC">>) @@ (<<"San Francisco">> :> <<"SF">>)
        @@ (<<"Oakland">> :> <<"LV">>) @@ (<<"Las Vegas">> :> <<"LV">>)

\* a variant of Series.map that keeps a value that is no key
MapCell_KeepsUnlisted(x, mapping) == IF x \in DOMAIN mapping THEN mapping[x] ELSE x

\* Series.map(dict): a value that is no key of the dict becomes NaN
MapCell(x, mapping) == IF x \in DOMAIN mapping THEN mapping[x] ELSE NaNCell

\* lines 56-57 on one row
map_ids(r) ==
    [r EXCEPT !.team_id = MapCell(r.Team, team_id_mapping),
              !.opp_id = MapCell(r.Opp, opp_id_mapping)]

postseason_mapping ==
    (<<"Wildcard Weekend">> :> 18) @@ (<<"Divisional Playoffs">> :> 19) @@
    (<<"Conference Championships">> :> 20) @@ (<<"Super Bowl">> :> 21)

InMapping(week) == week.t = "str" /\ week.v \in DOMAIN postseason_mapping

\* a variant without the shift of line 94
adjust_week_NoShift(r) ==
    IF InMapping(r.week)
    THEN <<PyInt(postseason_mapping[r.week.v]), TRUE>>
    ELSE <<r.week, FALSE>>

\* returns <<week, is_postseason>>
adjust_week(r) ==
    IF r.year <= 2020
    THEN IF InMapping(r.week)
         THEN <<PyInt(postseason_mapping[r.week.v]), TRUE>>
         ELSE <<r.week, FALSE>>
    ELSE IF r.year >= 2021 /\ InMapping(r.week)
         THEN <<PyInt(postseason_mapping[r.week.v] + 1), TRUE>>
         ELSE <<r.week, FALSE>>

\* f"{x}" of a cell of a column of str
FormatCell(x) == IF x = NaNCell THEN <<"nan">> ELSE x

\* a variant that puts the row's own team first whatever the home flag
generate_game_id_TeamFirst(r) ==
    Join(<<IntToStr(r.year), Format(r.week), FormatCell(r.team_id),
           FormatCell(r.opp_id)>>, "_")

generate_game_id(r) ==
    IF r.home = "Yes"
    THEN Join(<<IntToStr(r.year), Format(r.week), FormatCell(r.opp_id),
                FormatCell(r.team_id)>>, "_")
    ELSE Join(<<IntToStr(r.year), Format(r.week), FormatCell(r.team_id),
                FormatCell(r.opp_id)>>, "_")

\* a variant that swaps one field too early (week and first team)
SwapTeams_OneEarly(parts) == [parts EXCEPT ![2] = parts[3], ![3] = parts[2]]

\* parts[2], parts[3] = parts[3], parts[2]   (0-based in the source)
SwapTeams(parts) == [parts EXCEPT ![3] = parts[4], ![4] = parts[3]]

\* a variant that swaps the id and leaves the home flag as it was
verify_and_adjust_game_id_KeepsHome(r, valid) ==
    IF r.game_id \notin valid
    THEN LET adjusted_game_id == Join(SwapTeams(Split(r.game_id, "_")), "_")
         IN  IF adjusted_game_id \in valid
             THEN <<adjusted_game_id, r.home>>
             ELSE <<r.game_id, r.home>>
    ELSE <<r.game_id, r.home>>

\* a variant that returns the swapped id without looking it up
verify_and_adjust_game_id_Unchecked(r, valid) ==
    IF r.game_id \notin valid
    THEN <<Join(SwapTeams(Split(r.game_id, "_")), "_"),
           IF r.home = "Yes" THEN "No" ELSE "Yes">>
    ELSE <<r.game_id, r.home>>

\* returns <<game_id, home>>
verify_and_adjust_game_id(r, valid) ==
    IF r.game_id \notin valid
    THEN LET parts == Split(r.game_id, "_")
             adjusted_game_id == Join(SwapTeams(parts), "_")
         IN  IF adjusted_game_id \in valid
             THEN <<adjusted_game_id, IF r.home = "Yes" THEN "No" ELSE "Yes">>
             ELSE <<r.game_id, r.home>>
    ELSE <<r.game_id, r.home>>

\* apply_adjustments on one row, lines 127-133: week and postseason from
\* adjust_week, then game_id from generate_game_id
GenerateRow(r) ==
    LET wp == adjust_week(r)
        r1 == [r EXCEPT !.week = wp[1],
                        !.postseason = IF wp[2] THEN "Yes" ELSE "No"]
    IN  [r1 EXCEPT !.game_id = generate_game_id(r1)]

\* apply_adjustments on one row, lines 135-138: game_id and home from
\* verify_and_adjust_game_id
AdjustRow(r, valid) ==
    LET adj == verify_and_adjust_game_id(r, valid)
    IN  [r EXCEPT !.game_id = adj[1], !.home = adj[2]]


None == 0 - 1

----------------------------------------------------------------------------
(* The penalties.csv that the two aggregation scripts read *)

Phase_Penalties == {"Def_Offside", "Off_Holding"}

\* row.Phase_Penalty column of every row set to 0 (clean_drives.py:99-100,
\* clean_team_performances.py:51-52)
ZeroCounts == [c \in Phase_Penalties |-> 0]

Labels(df) == 0..(Len(df) - 1)

\* df.loc[i]: label i of a RangeIndex is position i
Loc(df, i) == df[i + 1]

\* df.loc[i, c] += 1
Increment(df, i, c) ==
    [df EXCEPT ![i + 1].cnt[c] = df[i + 1].cnt[c] + 1]

\* the cells that differ between two versions of a table, with the difference
Changed(old, new) ==
    {<<i, c, Loc(new, i).cnt[c] - Loc(old, i).cnt[c]>> :
        <<i, c>> \in {x \in Labels(old) \X Phase_Penalties :
                        Loc(old, x[1]).cnt[x[2]] # Loc(new, x[1]).cnt[x[2]]}}

----------------------------------------------------------------------------
(* clean_drives.py *)

\* a variant whose .get falls back to the first row of the table
game_id_to_index_DefaultFirst(df, g) ==
    IF \E i \in Labels(df) : Loc(df, i).game_id = g
    THEN CHOOSE i \in Labels(df) :
            /\ Loc(df, i).game_id = g
            /\ \A j \in Labels(df) : Loc(df, j).game_id = g => i <= j
    ELSE IF Len(df) > 0 THEN 0 ELSE None

\* game_id_to_index.get(g): the first label of game g, or None
game_id_to_index(df, g) ==
    IF \E i \in Labels(df) : Loc(df, i).game_id = g
    THEN CHOOSE i \in Labels(df) :
            /\ Loc(df, i).game_id = g
            /\ \A j \in Labels(df) : Loc(df, j).game_id = g => i <= j
    ELSE None

\* year, week, team1, team2 = g.split("_"); "_".join([year, week, team2, team1])
\* (the unpacking raises ValueError unless there are 4 parts)
CanUnpack4(g) == Len(Split(g, "_")) = 4
ReverseId(g) ==
    LET parts == Split(g, "_")
    IN  Join(<<parts[1], parts[2], parts[4], parts[3]>>, "_")

\* the while loop of lines 112-117, from drive_index di
RECURSIVE Scan(_, _, _, _)
Scan(df, g, t, di) ==
    IF /\ di + 1 < Len(df)
       /\ Loc(df, di + 1).game_id = g
       /\ Loc(df, di + 1).time_left > t
    THEN Scan(df, g, t, di + 1)
    ELSE di

\* the label whose counter line 119 reads and writes
TargetLabel(di) == di + 1

\* the condition of line 118
ShouldCount(df, di, t) == Loc(df, di).time_left >= t

\* One iteration of the penalty loop (lines 103-119) on penalty row p:
\* how it ends, the table after it, and game_id and drive_index at its end
DrivesIteration(df, p) ==
    LET fwd == game_id_to_index(df, p.Game_ID)
    IN  IF fwd = None /\ ~CanUnpack4(p.Game_ID)
        THEN [end |-> "ValueError", df |-> df, game_id |-> p.Game_ID,
              drive_index |-> None]
        ELSE LET g  == IF fwd # None THEN p.Game_ID ELSE ReverseId(p.Game_ID)
                 d0 == IF fwd # None THEN fwd ELSE game_id_to_index(df, g)
             IN  IF d0 = None
                 THEN [end |-> "continue", df |-> df, game_id |-> g,
                       drive_index |-> None]
                 ELSE LET di == Scan(df, g, p.Time_Left, d0)
                      IN  IF ~ShouldCount(df, di, p.Time_Left)
                          THEN [end |-> "next", df |-> df, game_id |-> g,
                                drive_index |-> di]
                          ELSE IF TargetLabel(di) \notin Labels(df)
                          THEN \* .loc reads a label that is not in the index
                               [end |-> "KeyError", df |-> df, game_id |-> g,
                                drive_index |-> di]
                          ELSE [end |-> "next",
                                df |-> Increment(df, TargetLabel(di), p.Phase_Penalty),
                                game_id |-> g, drive_index |-> di]

Raised(end) == end \in {"ValueError", "KeyError", "IndexError"}

DrivesPenalty(p) ==
    /\ script = "clean_drives"
    /\ pc = "loop"
    /\ n < MaxPenalties
    /\ LET it == DrivesIteration(drives_df, p)
       IN  /\ n' = n + 1
           /\ row' = p
           /\ pc' = IF Raised(it.end) THEN "crashed" ELSE pc
           /\ found' = IF it.end = "continue" THEN found ELSE found + 1
           /\ drives_df' = it.df
           /\ game_id' = it.game_id
           /\ drive_index' = it.drive_index
           /\ touched' = Changed(drives_df, it.df)
    /\ UNCHANGED <<batches, driver, html_source, site, script, valid_game_ids, penalties, team_performances_df, csv>>

\* drives_df.to_csv(...), line 121, once the loop has run out of rows
DrivesToCsv ==
    /\ script = "clean_drives"
    /\ pc = "loop"
    /\ pc' = "done"
    /\ csv' = drives_df
    /\ UNCHANGED <<batches, driver, html_source, site, script, n, valid_game_ids, penalties, drives_df,
                   team_performances_df, row, game_id, drive_index, touched, found>>

----------------------------------------------------------------------------
(* clean_team_performances.py *)

\* teams.csv old_ids -> team_id, as create_old_to_new_id builds it
old_to_new_id == (<<"OAK">> :> <<"LV">>) @@ (<<"SDG">> :> <<"LAC">>)

NewId(team) == IF team \in DOMAIN old_to_new_id THEN old_to_new_id[team] ELSE team

\* clean_game_id on one game id (team_performances.csv ids have 4 parts)
clean_game_id(g) ==
    LET parts == Split(g, "_")
    IN  Join(<<parts[1], parts[2], NewId(parts[3]), NewId(parts[4])>>, "_")

\* lines 36-41: every game_id replaced by clean_game_id of it
CleanTeamTable(raw) ==
    [i \in 1..Len(raw) |-> [raw[i] EXCEPT !.game_id = clean_game_id(raw[i].game_id)]]

\* team_performances_game_id_to_row.get(g): the labels of game g in row
\* order; a key of the defaultdict always holds at least one label, so the
\* empty list stands for the None that .get returns for a missing key
RECURSIVE LabelsFrom(_, _, _)
LabelsFrom(df, g, i) ==
    IF i >= Len(df) THEN <<>>
    ELSE (IF Loc(df, i).game_id = g THEN <<i>> ELSE <<>>) \o LabelsFrom(df, g, i + 1)

NoLabels == <<>>

\* a variant whose .get falls back to the first row of the table
game_id_to_row_DefaultFirst(df, g) ==
    IF LabelsFrom(df, g, 0) = NoLabels /\ Len(df) > 0
    THEN <<0>>
    ELSE LabelsFrom(df, g, 0)

game_id_to_row(df, g) == LabelsFrom(df, g, 0)

\* One iteration of the penalty loop (lines 55-66) on penalty row p
TeamPerfIteration(df, p) ==
    LET i1 == game_id_to_row(df, p.Game_ID)
        i  == IF i1 = NoLabels THEN game_id_to_row(df, p.Reverse_Game_ID) ELSE i1
    IN  IF i = NoLabels
        THEN [end |-> "continue", df |-> df]
        ELSE IF Loc(df, i[1]).team_id = p.Team_ID
        THEN [end |-> "next", df |-> Increment(df, i[1], p.Phase_Penalty)]
        ELSE IF Len(i) < 2
        THEN \* i[1] of a one-element list
             [end |-> "IndexError", df |-> df]
        ELSE [end |-> "next", df |-> Increment(df, i[2], p.Phase_Penalty)]

TeamPerfPenalty(p) ==
    /\ script = "clean_team_performances"
    /\ pc = "loop"
    /\ n < MaxPenalties
    /\ LET it == TeamPerfIteration(team_performances_df, p)
       IN  /\ n' = n + 1
           /\ row' = p
           /\ pc' = IF Raised(it.end) THEN "crashed" ELSE pc
           /\ found' = IF it.end = "continue" THEN found ELSE found + 1
           /\ team_performances_df' = it.df
           /\ touched' = Changed(team_performances_df, it.df)
    /\ UNCHANGED <<batches, driver, html_source, site, script, valid_game_ids, penalties, drives_df, game_id,
                   drive_index, csv>>

\* team_performances_df.to_csv(...), lines 68-71
TeamPerfToCsv ==
    /\ script = "clean_team_performances"
    /\ pc = "loop"
    /\ pc' = "done"
    /\ csv' = team_performances_df
    /\ UNCHANGED <<batches, driver, html_source, site, script, n, valid_game_ids, penalties, drives_df,
                   team_performances_df, row, game_id, drive_index, touched, found>>

----------------------------------------------------------------------------
(* clean_penalties.py: apply_adjustments, one row at a time *)

ApplyAdjustments(r) ==
    /\ script = "clean_penalties"
    /\ pc = "loop"
    /\ n < MaxPenalties
    /\ n' = n + 1
    /\ penalties' = Append(penalties,
                           [raw |-> r,
                            gen |-> GenerateRow(r),
                            adj |-> AdjustRow(GenerateRow(r), valid_game_ids)])
    /\ UNCHANGED <<batches, driver, html_source, site, script, pc, valid_game_ids, drives_df, team_performances_df,
                   row, game_id, drive_index, touched, found, csv>>

\* lines 127-131 on one row: week and postseason from adjust_week
AdjustWeek(r) ==
    /\ script = "clean_penalties"
    /\ pc = "adjust_week"
    /\ pc' = "adjusted"
    /\ n' = n + 1
    /\ penalties' = <<[raw |-> r,
                       week |-> adjust_week(r)[1],
                       postseason |-> IF adjust_week(r)[2] THEN "Yes" ELSE "No"]>>
    /\ UNCHANGED <<batches, driver, html_source, site, script, valid_game_ids, drives_df, team_performances_df,
                   row, game_id, drive_index, touched, found, csv>>

----------------------------------------------------------------------------
(* Numbers in text: clock strings and CSV cells, one symbol per character *)

IsDigits(s) ==
    /\ Len(s) > 0
    /\ \A i \in 1..Len(s) : \E d \in 1..10 : Digits[d] = s[i]

DigitOf(c) == (CHOOSE d \in 1..10 : Digits[d] = c) - 1

\* int(s) of a str of decimal digits; where IsDigits fails int() raises
\* ValueError
RECURSIVE StrToInt(_)
StrToInt(s) ==
    IF Len(s) = 1 THEN DigitOf(s[1])
    ELSE 10 * StrToInt(SubSeq(s, 1, Len(s) - 1)) + DigitOf(s[Len(s)])

\* f"{i:02}": at least two characters, a minus sign counts as one
Pad2(i) ==
    IF i < 0 THEN <<"-">> \o IntToStr(0 - i)
    ELSE IF i < 10 THEN <<"0">> \o IntToStr(i)
    ELSE IntToStr(i)

\* float('nan') in a numeric column
NaN == 0 - 2

\* pd.read_csv of a cell of a numeric column: an empty cell is NaN
ReadNumber(cell) == IF cell = <<>> THEN NaN ELSE StrToInt(cell)

----------------------------------------------------------------------------
(* scrape_games.py: the drives of one game page, as main exports them *)

\* parse_drives: one row per table row, in the order of the page
parse_drives(table, team_id, g) ==
    [i \in 1..Len(table) |->
        [game_id |-> g, team_id |-> team_id,
         quarter |-> table[i].quarter, time |-> table[i].time]]

\* main, lines 422-437 and 459: the home team's drives, then the away team's
\* (game_id is season_week_away_home)
all_drives(page) ==
    LET parts == Split(page.game_id, "_")
        home_drives == parse_drives(page.home, parts[4], page.game_id)
        away_drives == parse_drives(page.away, parts[3], page.game_id)
    IN  home_drives \o away_drives

\* scrape_games.main for the one game of missing.csv, export_data to a new
\* drives.csv; clean_drives runs next
ScrapeGames ==
    /\ script = "scrape_games"
    /\ pc = "loop"
    /\ csv' = all_drives(site)
    /\ script' = "clean_drives"
    /\ pc' = "read_csv"
    /\ UNCHANGED <<batches, driver, html_source, site, n, valid_game_ids, penalties, drives_df,
                   team_performances_df, row, game_id, drive_index, touched, found>>

----------------------------------------------------------------------------
(* scrape_games.py: main over the urls of missing.csv.  site is the list   *)
(* of the pages behind the urls, n the iterations of the loop that ended,  *)
(* csv the three files.  The load thread of the k-th url is thread k.      *)

\* html_source of line 62, and the page a driver shows before any load
NoPage == 0

\* the driver before the first get_html_source
NewDriver ==
    [page_source |-> NoPage,    \* index of the page the browser shows
     loading     |-> {},        \* threads inside driver.get, lines 42-43
     load_event  |-> {},        \* threads whose load_event is set, line 49
     outcome     |-> <<>>]      \* how driver.get of each started thread ended

NoBatches ==
    [all_game_details |-> <<>>, all_team_performance |-> <<>>, all_drives |-> <<>>]

\* get_html_source, lines 38-53: the load thread is started
StartLoad ==
    /\ script = "scrape_games"
    /\ pc = "get_html_source"
    /\ n < Len(site)
    /\ driver' = [driver EXCEPT !.loading = @ \cup {n + 1},
                                !.outcome = Append(@, "running")]
    /\ pc' = "join"
    /\ UNCHANGED <<batches, html_source, site, script, n, valid_game_ids,
                   penalties, drives_df, team_performances_df, row, game_id,
                   drive_index, touched, found, csv>>

\* load(), lines 40-49, of thread k: driver.get returns or raises, the
\* exception is caught and load_event is set in either case.  After a
\* TimeoutException the browser shows what it had of the page or what it
\* showed before; after another exception what it showed before.
LoadEnds(k, how, shown) ==
    /\ script = "scrape_games"
    /\ pc # "done"
    /\ k \in driver.loading
    /\ \/ how = "loaded" /\ shown = k
       \/ how = "TimeoutException" /\ shown \in {k, driver.page_source}
       \/ how = "Exception" /\ shown = driver.page_source
    /\ driver' = [page_source |-> shown,
                  loading     |-> driver.loading \ {k},
                  load_event  |-> driver.load_event \cup {k},
                  outcome     |-> [driver.outcome EXCEPT ![k] = how]]
    /\ UNCHANGED <<batches, html_source, site, script, pc, n, valid_game_ids,
                   penalties, drives_df, team_performances_df, row, game_id,
                   drive_index, touched, found, csv>>

\* the end of an iteration that did not break, lines 406 and 412/427/449
NextUrl == IF n + 1 < Len(site) THEN "get_html_source" ELSE "export"

\* get_html_source, lines 56-62, and main, lines 409-412: the join ends with
\* the thread or after thread_timeout; html_source is driver.page_source if
\* load_event is set and None if not, and None takes the continue
JoinEnds ==
    /\ script = "scrape_games"
    /\ pc = "join"
    /\ IF n + 1 \in driver.load_event
       THEN /\ html_source' = driver.page_source
            /\ pc' = "parse"
            /\ n' = n
       ELSE /\ html_source' = None
            /\ pc' = NextUrl
            /\ n' = n + 1
    /\ UNCHANGED <<batches, driver, site, script, valid_game_ids, penalties,
                   drives_df, team_performances_df, row, game_id, drive_index,
                   touched, found, csv>>

\* the sections a parse step looks up; soup.find gives None for a missing
\* one and the step raises AttributeError
Has(page_index, section) ==
    page_index # NoPage /\ section \in site[page_index].sections

\* combine_game_data, lines 336-349: the row of the loop's game_id, with the
\* game the parsed page is about
GameDetail(g, page_index) == [game_id |-> g, page |-> site[page_index].game_id]

\* lines 442-449
TeamPerformance(g, parts) ==
    <<[game_id |-> g, team_id |-> parts[4]], [game_id |-> g, team_id |-> parts[3]]>>

\* lines 433-437 for the page in html_source
Drives(g, parts, page_index) ==
    parse_drives(site[page_index].home, parts[4], g)
        \o parse_drives(site[page_index].away, parts[3], g)

\* main, lines 414-453, for the url of this iteration: what the three lists
\* are at the end of the try block, and whether an exception took the break
ParsePage(g, page_index) ==
    LET parts == Split(g, "_")
        b1 == [batches EXCEPT
                 !.all_game_details = Append(@, GameDetail(g, page_index))]
        b2 == [b1 EXCEPT !.all_drives = @ \o Drives(g, parts, page_index)]
        b3 == [b2 EXCEPT !.all_team_performance = @ \o TeamPerformance(g, parts)]
    IN  IF ~Has(page_index, "scorebox") THEN [lists |-> batches, raised |-> TRUE]
        ELSE IF Len(parts) # 4 THEN [lists |-> batches, raised |-> FALSE]
        ELSE IF ~Has(page_index, "drives") THEN [lists |-> b1, raised |-> TRUE]
        ELSE IF ~Has(page_index, "linescore") THEN [lists |-> b2, raised |-> TRUE]
        ELSE [lists |-> b3, raised |-> FALSE]

ProcessPage ==
    /\ script = "scrape_games"
    /\ pc = "parse"
    /\ LET parsed == ParsePage(site[n + 1].url_game_id, html_source)
       IN  /\ batches' = parsed.lists
           /\ pc' = IF parsed.raised THEN "export" ELSE NextUrl
    /\ n' = n + 1
    /\ UNCHANGED <<driver, html_source, site, script, valid_game_ids, penalties,
                   drives_df, team_performances_df, row, game_id, drive_index,
                   touched, found, csv>>

\* pd.DataFrame(all_data).columns, line 355: the keys of the dicts, none for
\* an empty list
NoColumns == "none"
ColumnsOf(all_data, keys) == IF all_data = <<>> THEN NoColumns ELSE keys

\* a file written by to_csv(header=True), lines 365, 372 and 376
Written(all_data, keys) ==
    [exists |-> TRUE, columns |-> ColumnsOf(all_data, keys), rows |-> all_data]

\* export_data, lines 352-376; keys names the columns the rows of this list
\* have.  Reading the header of a file without one raises EmptyDataError.
export_data(all_data, file, keys) ==
    IF file.exists
    THEN IF file.columns = NoColumns THEN Written(all_data, keys)
         ELSE IF ColumnsOf(all_data, keys) # file.columns
              THEN Written(all_data, keys)
              ELSE [file EXCEPT !.rows = @ \o all_data]
    ELSE Written(all_data, keys)

\* main, lines 455-462
ExportAll ==
    /\ script = "scrape_games"
    /\ pc = "export"
    /\ pc' = "done"
    /\ csv' = [game_detail |->
                   export_data(batches.all_game_details, csv.game_detail,
                               "game_detail"),
               team_performances |->
                   export_data(batches.all_team_performance,
                               csv.team_performances, "team_performances"),
               drives |->
                   export_data(batches.all_drives, csv.drives, "drives")]
    /\ UNCHANGED <<batches, driver, html_source, site, script, n,
                   valid_game_ids, penalties, drives_df, team_performances_df,
                   row, game_id, drive_index, touched, found>>

----------------------------------------------------------------------------
(* clean_drives.py: main up to add_time_left *)

\* pd.read_csv("../../data/raw/drives.csv"), line 85
ReadDrivesCsv ==
    /\ script = "clean_drives"
    /\ pc = "read_csv"
    /\ drives_df' = [i \in 1..Len(csv) |->
                        [game_id |-> csv[i].game_id, team_id |-> csv[i].team_id,
                         quarter |-> ReadNumber(csv[i].quarter),
                         time |-> csv[i].time, time_left |-> 0]]
    /\ pc' = "fill_in_missing_quarters"
    /\ n' = 0
    /\ UNCHANGED <<batches, driver, html_source, site, script, valid_game_ids, penalties, team_performances_df,
                   row, game_id, drive_index, touched, found, csv>>

\* the row that line 13 reads for label i: label i - 1, whatever its game
PreviousLabel(i) == i - 1

\* fill_in_missing_quarters, one pass of the for loop (lines 12-13);
\* drives_df.loc[-1, 'quarter'] is a KeyError
FillQuarter(df, i) ==
    IF Loc(df, i).quarter # NaN THEN [end |-> "next", df |-> df]
    ELSE IF PreviousLabel(i) \notin Labels(df) THEN [end |-> "KeyError", df |-> df]
    ELSE [end |-> "next",
          df |-> [df EXCEPT ![i + 1].quarter = Loc(df, PreviousLabel(i)).quarter]]

FillInMissingQuarters ==
    /\ script = "clean_drives"
    /\ pc = "fill_in_missing_quarters"
    /\ IF n < Len(drives_df)
       THEN LET it == FillQuarter(drives_df, n)
            IN  /\ drives_df' = it.df
                /\ pc' = IF Raised(it.end) THEN "crashed" ELSE pc
                /\ n' = n + 1
       ELSE /\ pc' = "add_time_left"
            /\ n' = 0
            /\ UNCHANGED drives_df
    /\ UNCHANGED <<batches, driver, html_source, site, script, valid_game_ids, penalties, team_performances_df,
                   row, game_id, drive_index, touched, found, csv>>

\* a variant that counts the quarters from 0
SecondsOfQuarter_FromZero(quarter) == 60 * (60 - 15 * (quarter - 1))

\* 60 * (60 - 15 * quarter), line 27
SecondsOfQuarter(quarter) == 60 * (60 - 15 * quarter)

\* add_time_left, lines 25-30 for one row: the unpack of anything but two
\* parts and int() of anything but digits raise ValueError
time_left(quarter, time) ==
    LET parts == Split(time, ":")
    IN  IF Len(parts) # 2 \/ ~IsDigits(parts[1]) \/ ~IsDigits(parts[2])
        THEN [end |-> "ValueError", v |-> 0]
        ELSE [end |-> "next",
              v |-> SecondsOfQuarter(quarter) + 60 * StrToInt(parts[1])
                        + StrToInt(parts[2])]

AddTimeLeft ==
    /\ script = "clean_drives"
    /\ pc = "add_time_left"
    /\ IF n < Len(drives_df)
       THEN LET it == time_left(Loc(drives_df, n).quarter, Loc(drives_df, n).time)
            IN  /\ drives_df' = IF Raised(it.end) THEN drives_df
                                ELSE [drives_df EXCEPT ![n + 1].time_left = it.v]
                /\ pc' = IF Raised(it.end) THEN "crashed" ELSE pc
                /\ n' = n + 1
       ELSE \* the table the penalty loop scans
            /\ pc' = "prepared"
            /\ UNCHANGED <<drives_df, n>>
    /\ UNCHANGED <<batches, driver, html_source, site, script, valid_game_ids, penalties, team_performances_df,
                   row, game_id, drive_index, touched, found, csv>>

----------------------------------------------------------------------------
(* clean_penalties.py: main, one row through every pass *)

\* int(minute_left * 60), lines 147-150.  The float product is exact where
\* seconds / 60 is, that is for seconds a multiple of 15, the clocks of the
\* model; for other seconds the product can fall one short.
total_seconds(quarter, minutes, seconds) ==
    ((4 - quarter) * 15 + minutes) * 60 + seconds

\* a variant that takes a clock it cannot read for 0:00
compute_time_left_helper_Lenient(r) ==
    LET parts == Split(r.time, ":")
    IN  IF \E k \in 1..Len(parts) : ~IsDigits(parts[k])
        THEN [end |-> "next", v |-> PyStr(<<"0", "0", ":", "0", "0", ":", "0", "0">>)]
        ELSE IF Len(parts) < 2
        THEN [end |-> "next", v |-> PyStr(<<"0", "0", ":", "0", "0", ":", "0", "0">>)]
        ELSE LET total == total_seconds(r.quarter, StrToInt(parts[1]), StrToInt(parts[2]))
                 hours == total \div 3600
                 remainder == total % 3600
             IN  [end |-> "next",
                  v |-> PyStr(Join(<<Pad2(hours), Pad2(remainder \div 60),
                                     Pad2(remainder % 60)>>, ":"))]

\* compute_time_left_helper, lines 143-153: int() of a part that is no number
\* raises ValueError, time_parts[1] of a single part IndexError; divmod
\* rounds down, so an overtime value has hours -1
compute_time_left_helper(r) ==
    LET parts == Split(r.time, ":")
    IN  IF \E k \in 1..Len(parts) : ~IsDigits(parts[k])
        THEN [end |-> "ValueError", v |-> PyStr(<<>>)]
        ELSE IF Len(parts) < 2 THEN [end |-> "IndexError", v |-> PyStr(<<>>)]
        ELSE LET total == total_seconds(r.quarter, StrToInt(parts[1]), StrToInt(parts[2]))
                 hours == total \div 3600
                 remainder == total % 3600
             IN  [end |-> "next",
                  v |-> PyStr(Join(<<Pad2(hours), Pad2(remainder \div 60),
                                     Pad2(remainder % 60)>>, ":"))]

\* main, lines 182-185, for one row of the raw penalties.csv: map_ids,
\* apply_adjustments, compute_time_left.  An exception in any row ends the
\* run before finalize_dataframe.
CleanPenaltiesRow(r) ==
    /\ script = "clean_penalties"
    /\ pc = "loop"
    /\ n < MaxPenalties
    /\ LET gen == GenerateRow(map_ids(r))
           adj == AdjustRow(gen, valid_game_ids)
           it == compute_time_left_helper(adj)
       IN  /\ penalties' = Append(penalties,
                                  [raw |-> r, gen |-> gen, adj |-> adj,
                                   time_left |-> it.v])
           /\ pc' = IF Raised(it.end) THEN "crashed" ELSE pc
    /\ n' = n + 1
    /\ UNCHANGED <<batches, driver, html_source, site, script, valid_game_ids, drives_df, team_performances_df,
                   row, game_id, drive_index, touched, found, csv>>

\* penalties['time_left'] = ..., line 160, on one row
Assign(r, column, v) ==
    [c \in DOMAIN r \cup {column} |-> IF c = column THEN v ELSE r[c]]

\* the rows of a table with how often each occurs: a written file up to the
\* order of its rows
Rows(df) ==
    [r \in {df[i] : i \in 1..Len(df)} |->
        Cardinality({i \in 1..Len(df) : df[i] = r})]

\* finalize_dataframe, lines 164-176: the rows, sorted, to penalties.csv
FinalizePenalties ==
    /\ script = "clean_penalties"
    /\ pc = "loop"
    /\ pc' = "done"
    /\ csv' = Rows([i \in 1..Len(penalties) |->
                      Assign(penalties[i].adj, "time_left", penalties[i].time_left)])
    /\ UNCHANGED <<batches, driver, html_source, site, script, n, valid_game_ids, penalties, drives_df,
                   team_performances_df, row, game_id, drive_index, touched, found>>

----------------------------------------------------------------------------
(* clean_team_performances.py: main, the replacement of old team ids *)

\* lines 34-41
CleanGameIds ==
    /\ script = "clean_team_performances"
    /\ pc = "clean_game_id"
    /\ team_performances_df' = CleanTeamTable(team_performances_df)
    /\ pc' = "cleaned"
    /\ UNCHANGED <<batches, driver, html_source, site, script, n, valid_game_ids, penalties, drives_df,
                   row, game_id, drive_index, touched, found, csv>>

----------------------------------------------------------------------------
(* clean_games.py: preprocess_data, the penalty columns and totals *)

\* penalties_count >= 50, line 74
MinOccurrences == 50

\* penalty_df['penalty'].value_counts(), line 73
value_counts(penalty_df, c) ==
    Cardinality({i \in 1..Len(penalty_df) : penalty_df[i].penalty = c})

\* a variant that asks for more than the threshold
frequent_penalties_Above(penalty_df) ==
    {c \in {penalty_df[i].penalty : i \in 1..Len(penalty_df)} :
        value_counts(penalty_df, c) > MinOccurrences}

\* line 74
frequent_penalties(penalty_df) ==
    {c \in {penalty_df[i].penalty : i \in 1..Len(penalty_df)} :
        value_counts(penalty_df, c) >= MinOccurrences}

\* line 75
filtered_penalties(penalty_df) ==
    LET frequent == frequent_penalties(penalty_df)
        Kept(r) == r.phase # "ST" /\ r.penalty \in frequent
    IN  SelectSeq(penalty_df, Kept)

\* line 78
unique_penalties(penalty_df) ==
    {filtered_penalties(penalty_df)[i].penalty :
        i \in 1..Len(filtered_penalties(penalty_df))}

\* lines 73-86: a zero column for every penalty of unique_penalties and the
\* four zero total columns, on every row
InitPenaltyColumns ==
    /\ script = "clean_games"
    /\ pc = "columns"
    /\ team_performances_df' =
           [k \in 1..Len(team_performances_df) |->
               [game_id |-> team_performances_df[k].game_id,
                team_id |-> team_performances_df[k].team_id,
                cnt |-> [c \in unique_penalties(penalties) |-> 0],
                total_off_pen |-> 0, total_def_pen |-> 0,
                total_off_pen_yards |-> 0, total_def_pen_yards |-> 0]]
    /\ pc' = "loop"
    /\ UNCHANGED <<batches, driver, html_source, site, script, n, valid_game_ids, penalties, drives_df,
                   row, game_id, drive_index, touched, found, csv>>

\* lines 90-102 for one row of filtered_penalties: every row of df under the
\* mask gets the increments
Fold(df, p) ==
    [k \in 1..Len(df) |->
        IF df[k].game_id = p.game_id /\ df[k].team_id = p.team_id
               /\ p.phase \in {"Off", "Def"}
        THEN IF p.phase = "Off"
             THEN [df[k] EXCEPT !.cnt[p.penalty] = @ + 1,
                                !.total_off_pen = @ + 1,
                                !.total_off_pen_yards = @ + p.yardage]
             ELSE [df[k] EXCEPT !.cnt[p.penalty] = @ + 1,
                                !.total_def_pen = @ + 1,
                                !.total_def_pen_yards = @ + p.yardage]
        ELSE df[k]]

\* one pass of the loop of line 89
FoldPenalty ==
    /\ script = "clean_games"
    /\ pc = "loop"
    /\ n < Len(filtered_penalties(penalties))
    /\ team_performances_df' =
           Fold(team_performances_df, filtered_penalties(penalties)[n + 1])
    /\ n' = n + 1
    /\ UNCHANGED <<batches, driver, html_source, site, script, pc, valid_game_ids, penalties, drives_df,
                   row, game_id, drive_index, touched, found, csv>>

\* lines 104-108, after the last row of filtered_penalties
PreprocessToCsv ==
    /\ script = "clean_games"
    /\ pc = "loop"
    /\ n = Len(filtered_penalties(penalties))
    /\ pc' = "done"
    /\ csv' = team_performances_df
    /\ UNCHANGED <<batches, driver, html_source, site, script, n, valid_game_ids, penalties, drives_df,
                   team_performances_df, row, game_id, drive_index, touched, found>>

----------------------------------------------------------------------------
(* Inputs *)

KC == <<"KC">>
SF == <<"SF">>
LV == <<"LV">>
OAK == <<"OAK">>
SEA == <<"SEA">>

GameId(year, week, team1, team2) == Join(<<IntToStr(year), week, team1, team2>>, "_")

\* drives.csv: the game the penalties are about and a neighbouring game, each
\* game's rows in one block as scrape_games extends them.  The loop never
\* reads the time_left of the neighbour's rows, so they carry one value.
DriveGameId == GameId(2020, <<"1">>, KC, SF)
OtherGameId == GameId(2020, <<"1">>, LV, SEA)
DriveTimes == {1800, 900, 0}
DriveRows ==
    [game_id : {DriveGameId}, time_left : DriveTimes, cnt : {ZeroCounts}]
        \cup [game_id : {OtherGameId}, time_left : {1800}, cnt : {ZeroCounts}]

OneBlockPerGame(df) ==
    \A i, j, k \in 1..Len(df) :
        (i < j /\ j < k /\ df[i].game_id = df[k].game_id)
            => df[j].game_id = df[i].game_id

\* a whole game: drives of the one game with the given time_left values
GameOf(times) ==
    [i \in 1..Len(times) |->
        [game_id |-> DriveGameId, time_left |-> times[i], cnt |-> ZeroCounts]]

\* the two worked games of the specification's scenarios
WorkedDrives == GameOf(<<3600, 1800, 900, 0>>)
WorkedTie == GameOf(<<3600, 1800, 1800, 0>>)

DriveTables ==
    {df \in UNION {[1..k -> DriveRows] : k \in 0..MaxDrives} : OneBlockPerGame(df)}
        \cup {WorkedDrives, WorkedTie}

\* team_performances.csv before clean_game_id: scrape_games writes a row for
\* the home and for the away team of a game, the two teams of its game id
RawTeamGameIds == {GameId(2020, <<"1">>, KC, SF), GameId(2020, <<"1">>, OAK, KC)}
TeamRows ==
    UNION {{[game_id |-> g, team_id |-> Split(g, "_")[k], cnt |-> ZeroCounts] :
               k \in {3, 4}} : g \in RawTeamGameIds}
RawTeamTables == UNION {[1..k -> TeamRows] : k \in 0..MaxTeamRows}

\* penalties.csv rows: the game with its teams in file order, the same game
\* with them swapped, and a game that is in neither table.  Reverse_Game_ID
\* is the swapped Game_ID.
PenaltyGameIds ==
    {GameId(2020, <<"1">>, KC, SF), GameId(2020, <<"1">>, SF, KC),
     GameId(2020, <<"1">>, SEA, SF)}
PenaltyTimes == {1800, 1000, 0 - 120}

PenaltyRow(g, team, t, c) ==
    [Game_ID |-> g, Reverse_Game_ID |-> ReverseId(g), Team_ID |-> team,
     Time_Left |-> t, Phase_Penalty |-> c]

\* clean_drives reads Game_ID, Time_Left, Phase_Penalty
DrivePenaltyRows ==
    {PenaltyRow(g, KC, t, c) : g \in PenaltyGameIds, t \in PenaltyTimes,
                               c \in Phase_Penalties}

\* clean_team_performances reads Game_ID, Reverse_Game_ID, Team_ID, Phase_Penalty
TeamPenaltyRows ==
    {PenaltyRow(g, team, 0, c) :
        g \in PenaltyGameIds \cup {GameId(2020, <<"1">>, LV, KC)},
        team \in {KC, SF, LV}, c \in Phase_Penalties}

NoRow ==
    [Game_ID |-> <<>>, Reverse_Game_ID |-> <<>>, Team_ID |-> <<>>,
     Time_Left |-> 0, Phase_Penalty |-> ""]

\* penalties.csv rows as apply_adjustments receives them (after map_ids and
\* preprocess_data): both teams' rows of the Kansas City - San Francisco
\* games, and rows of another game
RawPenaltyRows ==
    [year : {2020, 2021}, week : {PyStr(<<"1">>), PyStr(<<"Super Bowl">>)},
     team_id : {KC}, opp_id : {SF}, home : {"Yes", "No", "nan"},
     game_id : {<<>>}, postseason : {""}]
    \cup
    [year : {2020, 2021}, week : {PyStr(<<"1">>), PyStr(<<"Super Bowl">>)},
     team_id : {SF}, opp_id : {KC}, home : {"Yes", "No", "nan"},
     game_id : {<<>>}, postseason : {""}]
    \cup
    [year : {2020}, week : {PyStr(<<"1">>)},
     team_id : {SF}, opp_id : {SEA}, home : {"Yes", "No"},
     game_id : {<<>>}, postseason : {""}]

\* game_detail.csv game ids
KnownGameIds ==
    {GameId(2020, <<"1">>, KC, SF), GameId(2020, <<"1">>, SF, KC),
     GameId(2021, <<"2", "2">>, KC, SF)}

\* the clock of a drive or penalty as the sites print it: m:ss
Clock(m, s) == IntToStr(m) \o <<":">> \o Pad2(s)

\* a cell pair (quarter, time) of drives.csv, from the numbers it stands for;
\* an empty quarter cell is read as NaN
Reading(q, m, s) ==
    [quarter |-> IF q = NaN THEN <<>> ELSE IntToStr(q), time |-> Clock(m, s)]

\* (quarter, minutes, seconds) of the readings of well-formed rows
ClockReadings ==
    {<<1, 15, 0>>, <<2, 7, 30>>, <<3, 0, 0>>, <<4, 15, 0>>, <<4, 0, 0>>,
     <<5, 7, 30>>}

\* a clock without its colon, and one with seconds that are no digits
MalformedClock == <<"7", "3", "0">>
MalformedSeconds == <<"7", ":", "x", "x">>

\* drives.csv rows: well-formed ones, one with an empty quarter cell and one
\* with a clock that is no m:ss
RawDriveReadings ==
    {Reading(t[1], t[2], t[3]) : t \in ClockReadings}
        \cup {Reading(NaN, 0, 0)}
        \cup {[quarter |-> <<"2">>, time |-> MalformedClock]}

RawDriveRows ==
    {[game_id |-> g, team_id |-> KC, quarter |-> r.quarter, time |-> r.time] :
        g \in {DriveGameId, OtherGameId}, r \in RawDriveReadings}

\* drives.csv as clean_drives finds it: the first game's rows, then the
\* second game's
RawDriveTables ==
    {df \in UNION {[1..k -> RawDriveRows] : k \in 1..MaxDrives} :
        /\ df[1].game_id = DriveGameId
        /\ \A i \in 1..(Len(df) - 1) :
               df[i].game_id = OtherGameId => df[i + 1].game_id = OtherGameId}

\* t1 is no later in the game than t2
NoLater(t1, t2) ==
    \/ t1[1] < t2[1]
    \/ t1[1] = t2[1] /\ 60 * t1[2] + t1[3] >= 60 * t2[2] + t2[3]

\* one team's drive table on a game page: chronological
TeamDriveTables ==
    {[i \in 1..Len(ts) |-> Reading(ts[i][1], ts[i][2], ts[i][3])] :
        ts \in {x \in UNION {[1..k -> {<<1, 15, 0>>, <<2, 7, 30>>, <<4, 0, 0>>}] :
                                k \in 1..MaxTeamDrives} :
                   \A i \in 1..(Len(x) - 1) : NoLater(x[i], x[i + 1])}}

\* the page of the one game that scrape_games fetches
GamePages ==
    [game_id : {DriveGameId}, home : TeamDriveTables, away : TeamDriveTables]


\* the raw penalties.csv of scrape_penalties, rows with Phase in Off, Def, ST
\* and year taken from Date (preprocess_data): rows that differ in the team
\* and opponent names, one of each in no dict of map_ids, and rows that
\* differ in quarter and clock
SitePenaltyRow(team, opp, home, quarter, time) ==
    [Team |-> team, Opp |-> opp, team_id |-> NaNCell, opp_id |-> NaNCell,
     year |-> 2020, week |-> PyStr(<<"1">>), home |-> home,
     quarter |-> quarter, time |-> time, game_id |-> <<>>, postseason |-> ""]

SitePenaltyRows ==
    {SitePenaltyRow(team, opp, home, 1, Clock(15, 0)) :
        team \in {<<"kansas-city-chiefs">>, <<"london-monarchs">>},
        opp \in {<<"San Francisco">>, <<"London">>},
        home \in {"Yes", "No"}}
    \cup
    {SitePenaltyRow(<<"kansas-city-chiefs">>, <<"San Francisco">>, "No", q, time) :
        q \in {1, 4, 5},
        time \in {Clock(15, 0), Clock(7, 30), Clock(0, 0), MalformedClock,
                  MalformedSeconds}}

\* team_performances.csv as scrape_games wrote it: the rows of a game whose
\* id holds an old team id, of a game of two current ids and of a game with a
\* code that is in no table
UnlistedGameId == GameId(2020, <<"2">>, <<"LON">>, KC)
TeamCsvRows ==
    UNION {{[game_id |-> g, team_id |-> Split(g, "_")[k]] : k \in {3, 4}} :
              g \in RawTeamGameIds \cup {UnlistedGameId}}
TeamCsvTables == UNION {[1..k -> TeamCsvRows] : k \in 1..MaxTeamRows}

\* the processed penalties.csv that preprocess_data reads: the penalty, its
\* phase and its yardage
Categories ==
    {[penalty |-> "Off_Holding", phase |-> "Off", yardage |-> 10],
     [penalty |-> "Def_Offside", phase |-> "Def", yardage |-> 5],
     [penalty |-> "ST_Holding", phase |-> "ST", yardage |-> 10]}

PenaltyDfRow(g, team, c) ==
    [game_id |-> g, team_id |-> team, penalty |-> c.penalty, phase |-> c.phase,
     yardage |-> c.yardage]

\* penalties of the game whose rows are in df
GamePenalties ==
    {PenaltyDfRow(DriveGameId, team, c) :
        team \in {KC, SF}, c \in {x \in Categories : x.phase # "ST"}}
        \cup {PenaltyDfRow(DriveGameId, KC, c) : c \in {x \in Categories : x.phase = "ST"}}

\* k penalties of one category in a game that has no row in df
OtherGames(penalty, k) ==
    [i \in 1..k |->
        PenaltyDfRow(OtherGameId, SEA, CHOOSE c \in Categories : c.penalty = penalty)]

\* penalty_df: up to MaxPenalties penalties of the game, and in the other
\* games Off_Holding and ST_Holding just below the threshold, so that the
\* penalties of the game decide whether they reach it; Def_Offside is always
\* rare
PenaltyDfs ==
    {own \o OtherGames("Off_Holding", k)
         \o OtherGames("ST_Holding", MinOccurrences - 1) :
        own \in UNION {[1..m -> GamePenalties] : m \in 0..MaxPenalties},
        k \in {MinOccurrences - 2, MinOccurrences - 1}}

\* df after the merges of lines 44-67: the rows of the game
PerformanceRow(team) == [game_id |-> DriveGameId, team_id |-> team]
PerformanceTables ==
    {<<PerformanceRow(KC)>>, <<PerformanceRow(KC), PerformanceRow(SF)>>}

----------------------------------------------------------------------------
(* scrape_penalties.py: one run of main() updates data/raw/penalties.csv.  *)
(* A row is its Year, the place Num it has on its page (standing for the   *)
(* cells that tell the rows of a page apart) and one numeric cell Yds.     *)
(* teams.csv has one team.  A file is [exists, rows], the cells as text.   *)

\* the default start year, line 36
FirstYear == 2009

\* current_nfl_season(), lines 21-26, on the day of the runs
CurrentSeason == 2010

NoFile == [exists |-> FALSE, rows |-> <<>>]

PyFloat(x) == [t |-> "float", v |-> x]

\* the dtype pd.read_csv gives the column Yds: float64 as soon as one cell is
\* empty or has a decimal point, int64 otherwise
FloatColumn(rows) == \E i \in 1..Len(rows) : ~IsDigits(rows[i].Yds)

\* float(text) of "", "5" or "5.0" (to_csv writes no other fraction)
ReadFloat(text) ==
    IF text = <<>> THEN NaN ELSE StrToInt(Split(text, ".")[1])

\* pd.read_csv(file_path), lines 33 and 72
read_csv(rows) ==
    [i \in 1..Len(rows) |->
        [Year |-> rows[i].Year, Num |-> rows[i].Num,
         Yds  |-> IF FloatColumn(rows) THEN PyFloat(ReadFloat(rows[i].Yds))
                  ELSE PyInt(StrToInt(rows[i].Yds))]]

\* to_csv of one cell, line 77: a float is written with its fraction, NaN as
\* the empty cell, a str as it is
WriteCell(x) ==
    IF x.t = "str" THEN x.v
    ELSE IF x.t = "int" THEN IntToStr(x.v)
    ELSE IF x.v = NaN THEN <<>>
    ELSE IntToStr(x.v) \o <<".", "0">>

\* updated_df.to_csv(csv_file, index=False), line 77
to_csv(df) ==
    [exists |-> TRUE,
     rows   |-> [i \in 1..Len(df) |->
                    [Year |-> df[i].Year, Num |-> df[i].Num,
                     Yds  |-> WriteCell(df[i].Yds)]]]

\* get_start_year, lines 28-36
get_start_year(file) ==
    IF file.exists /\ Len(file.rows) > 0
    THEN CHOOSE y \in {file.rows[i].Year : i \in 1..Len(file.rows)} :
             \A i \in 1..Len(file.rows) : file.rows[i].Year <= y
    ELSE FirstYear

\* lines 51-60 for one year: the rows tr[1:-1] of the page's table with the
\* year appended; nothing when the page has no table or failed to load
ScrapeYear(pages, year) ==
    IF pages[year].table
    THEN [i \in 1..Len(pages[year].rows) |->
             [Year |-> year, Num |-> i, Yds |-> PyStr(pages[year].rows[i])]]
    ELSE <<>>

RECURSIVE ScrapeYears(_, _, _)
ScrapeYears(pages, start_year, end_year) ==
    IF start_year > end_year THEN <<>>
    ELSE ScrapeYear(pages, start_year)
             \o ScrapeYears(pages, start_year + 1, end_year)

\* scrape_penalties_data, lines 38-63: headers is bound only if some page had
\* a table, and the return of line 63 raises UnboundLocalError otherwise
scrape_penalties_data(pages, start_year, end_year) ==
    [data    |-> ScrapeYears(pages, start_year, end_year),
     headers |-> \E year \in start_year..end_year : pages[year].table]

\* existing_df of lines 72-73
existing_df(file, start_year) ==
    LET Kept(r) == r.Year # start_year
    IN  SelectSeq(read_csv(file.rows), Kept)

\* update_penalties_csv, lines 65-77
update_penalties_csv(data, file, start_year) ==
    IF file.exists
    THEN to_csv(existing_df(file, start_year) \o data)
    ELSE to_csv(data)

\* main, lines 79-90, once more on the file the runs before left
RunScrapePenalties ==
    /\ script = "scrape_penalties"
    /\ n < MaxRuns
    /\ n' = n + 1
    /\ LET start_year == get_start_year(csv)
           scraped == scrape_penalties_data(site, start_year, CurrentSeason + 1)
       IN  IF scraped.headers
           THEN /\ pc' = "done"
                /\ penalties' = scraped.data
                /\ csv' = update_penalties_csv(scraped.data, csv, start_year)
           ELSE /\ pc' = "crashed"
                /\ penalties' = <<>>
                /\ csv' = csv
    /\ UNCHANGED <<batches, driver, html_source, site, script, valid_game_ids, drives_df, team_performances_df,
                   row, game_id, drive_index, touched, found>>

\* what the site shows for one team and year
Pages ==
    {[table |-> FALSE, rows |-> <<>>]}
        \cup {[table |-> TRUE, rows |-> r] :
                r \in {<<>>, <<<<"5">>>>, <<<<>>>>, << <<"5">>, <<>> >>}}
Sites == [FirstYear..(CurrentSeason + 1) -> Pages]

\* a penalties.csv that earlier runs left: at most MaxPenalties rows of the
\* seasons so far, in the order of their years and places, no row twice
FileCells == {<<>>, <<"5">>, <<"5", ".", "0">>}
FileKeys == {<<y, k>> : y \in FirstYear..CurrentSeason, k \in 1..2}
KeyBefore(a, b) == a[1] < b[1] \/ (a[1] = b[1] /\ a[2] < b[2])
PenaltyFiles ==
    {NoFile} \cup
    {[exists |-> TRUE,
      rows |-> [i \in 1..Len(keys) |->
                   [Year |-> keys[i][1], Num |-> keys[i][2], Yds |-> cells[i]]]] :
        <<keys, cells>> \in UNION {
            {ks \in [1..m -> FileKeys] :
                \A i \in 1..(m - 1) : KeyBefore(ks[i], ks[i + 1])}
              \X [1..m -> FileCells] : m \in 0..MaxPenalties}}

\* the pages behind the urls of missing.csv: complete ones and ones that
\* lack the section a parse step needs; the game_id of missing.csv is that of
\* the page or, for one url, an id of three fields
PageSections ==
    {{"scorebox", "drives", "linescore"}, {"drives", "linescore"},
     {"scorebox", "linescore"}, {"scorebox", "drives"}}
UrlGameIds == <<DriveGameId, OtherGameId, GameId(2020, <<"1">>, LV, KC)>>
ThreeFieldId == Join(<<IntToStr(2020), <<"1">>, KC>>, "_")
UrlPage(k, sections, url_game_id) ==
    [game_id |-> UrlGameIds[k], url_game_id |-> url_game_id,
     sections |-> sections,
     home |-> <<Reading(1, 15, 0)>>, away |-> <<Reading(2, 7, 30)>>]
UrlPages(k) ==
    {UrlPage(k, s, UrlGameIds[k]) : s \in PageSections}
        \cup (IF k = 1
              THEN {UrlPage(k, {"scorebox", "drives", "linescore"}, ThreeFieldId)}
              ELSE {})
UrlLists ==
    UNION {{pages \in [1..m -> UNION {UrlPages(k) : k \in 1..m}] :
               \A k \in 1..m : pages[k] \in UrlPages(k)} : m \in 1..MaxUrls}

\* the three files before the run: none yet, or each with the rows of a game
\* scraped earlier
EarlierGameId == GameId(2019, <<"1">>, SEA, SF)
NoCsv == [exists |-> FALSE, columns |-> NoColumns, rows |-> <<>>]
FilesBefore ==
    {[game_detail |-> NoCsv, team_performances |-> NoCsv, drives |-> NoCsv],
     [game_detail |->
          Written(<<[game_id |-> EarlierGameId, page |-> EarlierGameId]>>,
                  "game_detail"),
      team_performances |->
          Written(TeamPerformance(EarlierGameId, Split(EarlierGameId, "_")),
                  "team_performances"),
      drives |->
          Written(parse_drives(<<Reading(1, 15, 0)>>, SF, EarlierGameId),
                  "drives")]}

----------------------------------------------------------------------------
(* Specifications *)

InitCommon ==
    /\ pc = "loop"
    /\ n = 0
    /\ batches = <<>>
    /\ driver = <<>>
    /\ html_source = <<>>
    /\ row = NoRow
    /\ game_id = <<>>
    /\ drive_index = None
    /\ touched = {}
    /\ found = 0
    /\ csv = <<>>
    /\ site = <<>>

\* one run of clean_drives.main, of clean_team_performances.main or of
\* clean_games.py (preprocess_data from line 73)
InitAggregate ==
    /\ n = 0
    /\ batches = <<>>
    /\ driver = <<>>
    /\ html_source = <<>>
    /\ row = NoRow
    /\ game_id = <<>>
    /\ drive_index = None
    /\ touched = {}
    /\ found = 0
    /\ csv = <<>>
    /\ site = <<>>
    /\ valid_game_ids = {}
    /\ \/ /\ script = "clean_drives"
          /\ pc = "loop"
          /\ penalties = <<>>
          /\ drives_df \in DriveTables
          /\ team_performances_df = <<>>
       \/ /\ script = "clean_team_performances"
          /\ pc = "loop"
          /\ penalties = <<>>
          /\ drives_df = <<>>
          /\ team_performances_df \in {CleanTeamTable(raw) : raw \in RawTeamTables}
       \/ /\ script = "clean_games"
          /\ pc = "columns"
          /\ penalties \in PenaltyDfs
          /\ drives_df = <<>>
          /\ team_performances_df \in PerformanceTables

NextAggregate ==
    \/ \E p \in DrivePenaltyRows : DrivesPenalty(p)
    \/ DrivesToCsv
    \/ \E p \in TeamPenaltyRows : TeamPerfPenalty(p)
    \/ TeamPerfToCsv
    \/ InitPenaltyColumns
    \/ FoldPenalty
    \/ PreprocessToCsv

SpecAggregate == InitAggregate /\ [][NextAggregate]_vars

\* one run of clean_penalties.apply_adjustments
InitPenalties ==
    /\ InitCommon
    /\ script = "clean_penalties"
    /\ valid_game_ids \in SUBSET KnownGameIds
    /\ penalties = <<>>
    /\ drives_df = <<>>
    /\ team_performances_df = <<>>

NextPenalties == \E r \in RawPenaltyRows : ApplyAdjustments(r)

SpecPenalties == InitPenalties /\ [][NextPenalties]_vars

\* the year and week cells adjust_week reads: the seasons around the change
\* of 2021, the regular weeks as the site prints them, the four round names
\* and a name that is no key of the mapping
WeekYears == 2017..2023
RoundNames == DOMAIN postseason_mapping
WeekCells ==
    {PyStr(IntToStr(w)) : w \in 1..18}
        \cup {PyStr(name) : name \in RoundNames \cup {<<"Pro Bowl">>}}
WeekRows == [year : WeekYears, week : WeekCells]

\* apply_adjustments up to line 131, on one row
InitWeek ==
    /\ script = "clean_penalties"
    /\ pc = "adjust_week"
    /\ n = 0
    /\ batches = <<>>
    /\ driver = <<>>
    /\ html_source = <<>>
    /\ row = NoRow
    /\ game_id = <<>>
    /\ drive_index = None
    /\ touched = {}
    /\ found = 0
    /\ csv = <<>>
    /\ site = <<>>
    /\ valid_game_ids = {}
    /\ penalties = <<>>
    /\ drives_df = <<>>
    /\ team_performances_df = <<>>

NextWeek == \E r \in WeekRows : AdjustWeek(r)

SpecWeek == InitWeek /\ [][NextWeek]_vars

\* the passes that prepare the tables, one script per run: scrape_games.main
\* followed by clean_drives.main up to add_time_left, clean_drives.main on a
\* drives.csv already there, clean_penalties.main, or the start of
\* clean_team_performances.main
InitPrepare ==
    /\ n = 0
    /\ batches = <<>>
    /\ driver = <<>>
    /\ html_source = <<>>
    /\ row = NoRow
    /\ game_id = <<>>
    /\ drive_index = None
    /\ touched = {}
    /\ found = 0
    /\ penalties = <<>>
    /\ drives_df = <<>>
    /\ \/ /\ script = "scrape_games"
          /\ pc = "loop"
          /\ site \in GamePages
          /\ csv = <<>>
       \/ /\ script = "clean_drives"
          /\ pc = "read_csv"
          /\ site = <<>>
          /\ csv \in RawDriveTables
       \/ /\ script = "clean_penalties"
          /\ pc = "loop"
          /\ site = <<>>
          /\ csv = <<>>
       \/ /\ script = "clean_team_performances"
          /\ pc = "clean_game_id"
          /\ site = <<>>
          /\ csv = <<>>
    /\ valid_game_ids = IF script = "clean_penalties" THEN KnownGameIds ELSE {}
    /\ IF script = "clean_team_performances"
       THEN team_performances_df \in TeamCsvTables
       ELSE team_performances_df = <<>>

NextPrepare ==
    \/ ScrapeGames
    \/ ReadDrivesCsv
    \/ FillInMissingQuarters
    \/ AddTimeLeft
    \/ \E r \in SitePenaltyRows : CleanPenaltiesRow(r)
    \/ FinalizePenalties
    \/ CleanGameIds

SpecPrepare == InitPrepare /\ [][NextPrepare]_vars

\* scrape_games.main from the loop of line 406 on
InitScrape ==
    /\ script = "scrape_games"
    /\ pc = "get_html_source"
    /\ n = 0
    /\ row = NoRow
    /\ game_id = <<>>
    /\ drive_index = None
    /\ touched = {}
    /\ found = 0
    /\ penalties = <<>>
    /\ drives_df = <<>>
    /\ team_performances_df = <<>>
    /\ valid_game_ids = {}
    /\ batches = NoBatches
    /\ driver = NewDriver
    /\ html_source = None
    /\ site \in UrlLists
    /\ csv \in FilesBefore

NextScrape ==
    \/ StartLoad
    \/ \E k \in 1..MaxUrls, how \in {"loaded", "TimeoutException", "Exception"},
          shown \in 0..MaxUrls : LoadEnds(k, how, shown)
    \/ JoinEnds
    \/ ProcessPage
    \/ ExportAll

SpecScrape == InitScrape /\ [][NextScrape]_vars

\* scrape_penalties.main run again and again on the same site
InitUpdate ==
    /\ script = "scrape_penalties"
    /\ pc = "main"
    /\ n = 0
    /\ batches = <<>>
    /\ driver = <<>>
    /\ html_source = <<>>
    /\ row = NoRow
    /\ game_id = <<>>
    /\ drive_index = None
    /\ touched = {}
    /\ found = 0
    /\ penalties = <<>>
    /\ drives_df = <<>>
    /\ team_performances_df = <<>>
    /\ valid_game_ids = {}
    /\ site \in Sites
    /\ csv \in PenaltyFiles

NextUpdate == RunScrapePenalties

SpecUpdate == InitUpdate /\ [][NextUpdate]_vars

----------------------------------------------------------------------------
(* Properties of the penalty loop of clean_drives.main *)

InDrives == script = "clean_drives" /\ n > 0

\* the last iteration found the penalty's game (it reached line 112)
Resolved == InDrives /\ drive_index # None

GameLabels == {i \in Labels(drives_df) : Loc(drives_df, i).game_id = game_id}

TimeAt(i) == Loc(drives_df, i).time_left

Descending == \A i, j \in GameLabels : i < j => TimeAt(i) >= TimeAt(j)

SetMax(S) == CHOOSE x \in S : \A y \in S : y <= x

\* the last iteration added 1 to the penalty's column of row i, and did
\* nothing else to the table
CountedOn(i) == touched = {<<i, row.Phase_Penalty, 1>>}

AtOrAbove == {i \in GameLabels : TimeAt(i) >= row.Time_Left}

Tied == {i \in GameLabels : TimeAt(i) = row.Time_Left}

RECURSIVE SumRow(_, _)
SumRow(cnt, cols) ==
    IF cols = {} THEN 0
    ELSE LET c == CHOOSE x \in cols : TRUE
         IN  cnt[c] + SumRow(cnt, cols \ {c})

\* the sum of all counter cells of a table
RECURSIVE SumCounts(_)
SumCounts(df) ==
    IF Len(df) = 0 THEN 0
    ELSE SumRow(df[1].cnt, Phase_Penalties) + SumCounts(Tail(df))

\* C1: in a game whose drives are in descending time_left order, a penalty
\* with time-left t whose game is found is counted on the latest drive of
\* that game whose time_left is >= t.
C1_LatestDriveAtOrAbove ==
    (Resolved /\ Descending /\ AtOrAbove # {}) => CountedOn(SetMax(AtOrAbove))

\* C2: when several consecutive drives of the penalty's game have the
\* penalty's time-left t as their time_left, the penalty is counted on the
\* later-indexed drive of the tied group.
C2_TieGoesToLaterDrive ==
    (Resolved /\ Descending /\ Cardinality(Tied) >= 2) => CountedOn(SetMax(Tied))

\* C3: a penalty whose time-left is below the time_left of every drive of
\* its game is counted on the final drive of that same game.
C3_BelowAllGoesToFinalDrive ==
    (Resolved /\ \A i \in GameLabels : TimeAt(i) > row.Time_Left)
        => CountedOn(SetMax(GameLabels))

\* C4: the cell a penalty increments is always in a drive row that exists and
\* whose game_id is the penalty's resolved game id; the loop never reaches for
\* a row past the last one (which ends the run with a KeyError).
C4_CountedInOwnGame ==
    InDrives =>
        /\ pc # "crashed"
        /\ \A x \in touched :
              x[1] \in Labels(drives_df) /\ Loc(drives_df, x[1]).game_id = game_id

\* C5: every penalty whose game is found increments exactly one counter cell
\* by exactly 1, and the counters written at the end of the pass add up to the
\* number of penalties whose game was found.
C5_EveryFoundPenaltyCounted ==
    /\ Resolved => \E i \in Labels(drives_df) : CountedOn(i)
    /\ (script = "clean_drives" /\ pc = "done") => SumCounts(csv) = found

----------------------------------------------------------------------------
(* Properties of clean_penalties.apply_adjustments *)

Entries == {penalties[k] : k \in 1..Len(penalties)}

\* the key year_week_first_second of an entry's game
KeyOf(e, first, second) ==
    Join(<<IntToStr(e.gen.year), Format(e.gen.week), first, second>>, "_")

\* the generated id of an entry with its two team codes swapped
SwappedKey(e) ==
    IF e.gen.game_id = KeyOf(e, e.raw.team_id, e.raw.opp_id)
    THEN KeyOf(e, e.raw.opp_id, e.raw.team_id)
    ELSE KeyOf(e, e.raw.team_id, e.raw.opp_id)

Inverted(home) == IF home = "Yes" THEN "No" ELSE "Yes"

NeitherValid(e) ==
    e.gen.game_id \notin valid_game_ids /\ SwappedKey(e) \notin valid_game_ids

\* C6: verify_and_adjust_game_id returns the id and the home flag unchanged
\* when the id is in the valid set; when it is not and the id with its team
\* codes swapped is, it returns the swapped id with the home flag inverted
\* ('Yes' becomes 'No', anything else becomes 'Yes').
C6_VerifyAndAdjust ==
    \A e \in Entries :
        /\ e.gen.game_id \in valid_game_ids
              => e.adj.game_id = e.gen.game_id /\ e.adj.home = e.gen.home
        /\ (e.gen.game_id \notin valid_game_ids /\ SwappedKey(e) \in valid_game_ids)
              => e.adj.game_id = SwappedKey(e) /\ e.adj.home = Inverted(e.gen.home)

\* a row whose id had to be swapped and whose flag was neither 'Yes' nor 'No',
\* beside a row whose id was valid as generated
C6_Witness ==
    /\ \E e \in Entries :
          /\ e.gen.game_id \notin valid_game_ids
          /\ e.adj.game_id \in valid_game_ids
          /\ e.gen.home = "nan"
          /\ e.adj.home = "Yes"
    /\ \E e \in Entries : e.gen.game_id \in valid_game_ids

\* a game key is a string of four "_"-separated fields
IsGameKey(s) == Len(Split(s, "_")) = 4

SameGame(e1, e2) ==
    /\ e1.raw.year = e2.raw.year
    /\ e1.raw.week = e2.raw.week
    /\ {e1.raw.team_id, e1.raw.opp_id} = {e2.raw.team_id, e2.raw.opp_id}

\* C8: two rows of the same real game (same year and week, teams A and B, each
\* row from either team's side, any home flags) both get the one valid key
\* when exactly one of year_week_A_B and year_week_B_A is valid.
C8_SameGameSameKey ==
    \A e1, e2 \in Entries :
        LET ab == KeyOf(e1, e1.raw.team_id, e1.raw.opp_id)
            ba == KeyOf(e1, e1.raw.opp_id, e1.raw.team_id)
        IN  (SameGame(e1, e2) /\ ab # ba
                /\ Cardinality({ab, ba} \cap valid_game_ids) = 1)
                => /\ e1.adj.game_id = e2.adj.game_id
                   /\ e1.adj.game_id \in {ab, ba} \cap valid_game_ids

\* the two teams' rows of one game, generated as different ids, one of which
\* had to be swapped
C8_Witness ==
    \E e1, e2 \in Entries :
        /\ SameGame(e1, e2)
        /\ e1.raw.team_id = e2.raw.opp_id
        /\ e1.gen.game_id # e2.gen.game_id
        /\ Cardinality({e1.gen.game_id, e2.gen.game_id} \cap valid_game_ids) = 1
        /\ e1.adj.game_id = e2.adj.game_id

\* the team code in the last, home, position of a game id
HomeTeamOf(id) == Split(id, "_")[4]

\* C24: after generate_game_id and verify_and_adjust_game_id the row's own
\* team code is last in the id exactly when home is 'Yes', generate_game_id of
\* the row with the returned flag gives the returned id, and
\* verify_and_adjust_game_id applied to its own result returns it unchanged.
C24_IdAgreesWithHome ==
    \A e \in Entries :
        /\ (HomeTeamOf(e.adj.game_id) = e.adj.team_id) <=> (e.adj.home = "Yes")
        /\ generate_game_id(e.adj) = e.adj.game_id
        /\ verify_and_adjust_game_id(e.adj, valid_game_ids)
               = <<e.adj.game_id, e.adj.home>>

\* a home row whose id was swapped and whose flag became 'No', beside a row
\* whose id is in neither order among the valid ones
C24_Witness ==
    /\ \E e \in Entries :
          /\ e.gen.home = "Yes"
          /\ e.adj.home = "No"
          /\ e.adj.game_id # e.gen.game_id
          /\ HomeTeamOf(e.adj.game_id) = e.adj.opp_id
    /\ \E e \in Entries : NeitherValid(e) /\ e.adj.home = "Yes"

----------------------------------------------------------------------------
(* Properties of adjust_week *)

Adjusted == script = "clean_penalties" /\ pc = "adjusted"

RoundWeek(year, name) ==
    IF year <= 2020 THEN postseason_mapping[name] ELSE postseason_mapping[name] + 1

\* the week cells of the regular season of a year
RegularWeeks(year) ==
    {PyStr(IntToStr(w)) : w \in 1..(IF year <= 2020 THEN 17 ELSE 18)}

\* C25: adjust_week gives the rounds Wildcard Weekend, Divisional Playoffs,
\* Conference Championships and Super Bowl the weeks 18, 19, 20, 21 up to 2020
\* and 19, 20, 21, 22 from 2021, with postseason true; any other week comes
\* back unchanged with postseason false; so the week of a round is written
\* differently from every regular week of its season.
C25_PostseasonWeeks ==
    Adjusted =>
        LET e == penalties[1]
        IN  /\ e.raw.week.v \in RoundNames =>
                   /\ e.week = PyInt(RoundWeek(e.raw.year, e.raw.week.v))
                   /\ e.week.v = (CASE e.raw.week.v = <<"Wildcard Weekend">> -> 18
                                    [] e.raw.week.v = <<"Divisional Playoffs">> -> 19
                                    [] e.raw.week.v = <<"Conference Championships">> -> 20
                                    [] e.raw.week.v = <<"Super Bowl">> -> 21)
                                   + (IF e.raw.year >= 2021 THEN 1 ELSE 0)
                   /\ e.postseason = "Yes"
                   /\ \A w \in RegularWeeks(e.raw.year) : Format(e.week) # Format(w)
            /\ e.raw.week.v \notin RoundNames =>
                   e.week = e.raw.week /\ e.postseason = "No"

\* the Super Bowl of a season from 2021 on, week 22
C25_Witness ==
    /\ Adjusted
    /\ penalties[1].raw.year = 2021
    /\ penalties[1].raw.week = PyStr(<<"Super Bowl">>)
    /\ penalties[1].week = PyInt(22)

----------------------------------------------------------------------------
(* Properties of the two aggregation loops about unmatched penalties *)

InAggregation == script \in {"clean_drives", "clean_team_performances"} /\ n > 0

Table == IF script = "clean_drives" THEN drives_df ELSE team_performances_df

TableGameIds == {Table[k].game_id : k \in 1..Len(Table)}

\* neither the last penalty's Game_ID nor its team-swapped Game_ID is a game
\* of the table
Unmatched ==
    row.Game_ID \notin TableGameIds /\ row.Reverse_Game_ID \notin TableGameIds

\* C9: a penalty whose Game_ID and team-swapped Game_ID are both absent from
\* the game index leaves every counter of the drive table and of the
\* team-performance table as it was.
C9_UnmatchedChangesNothing ==
    (InAggregation /\ Unmatched) => touched = {}

\* an unmatched penalty processed after one that was counted
C9_Witness ==
    /\ script = "clean_drives"
    /\ n >= 2
    /\ Unmatched
    /\ SumCounts(drives_df) >= 1

\* the numbers a pass writes besides its input columns: the counter cells
WrittenCounts ==
    {csv[k].cnt[c] : k \in 1..Len(csv), c \in Phase_Penalties}

----------------------------------------------------------------------------
(* Properties of the drive table that clean_drives prepares *)

\* add_time_left has run over the whole table
Prepared == script = "clean_drives" /\ pc = "prepared"

\* the table came from scrape_games in this run
Scraped == site # <<>>

\* labels whose time_left add_time_left has set
Computed ==
    IF script # "clean_drives" THEN {}
    ELSE IF pc = "prepared" THEN Labels(drives_df)
    ELSE IF pc = "add_time_left" THEN 0..(n - 1)
    ELSE {}

\* C11: in the table the penalty loop scans, in the order scrape_games
\* exported it (each team's drive table chronological), consecutive rows of a
\* game never go up in time_left and the first row of a game has the game's
\* maximum.
C11_ExportOrderDescending ==
    (Prepared /\ Scraped) =>
        /\ \A i \in Labels(drives_df) :
               (i + 1 \in Labels(drives_df)
                  /\ Loc(drives_df, i).game_id = Loc(drives_df, i + 1).game_id)
                 => Loc(drives_df, i).time_left >= Loc(drives_df, i + 1).time_left
        /\ \A i \in Labels(drives_df) :
               Loc(drives_df, 0).time_left >= Loc(drives_df, i).time_left

\* the (quarter, minutes, seconds) that a computed row's cells stand for
ReadingsOf(i) ==
    {t \in ClockReadings :
        /\ Loc(drives_df, i).quarter = t[1]
        /\ Loc(drives_df, i).time = Clock(t[2], t[3])}

\* C12: add_time_left sets time_left = 900 * (4 - quarter) + 60 * minutes +
\* seconds: 3600 at quarter 1 15:00, 0 at quarter 4 0:00, at most 0 in
\* overtime (quarter 5) and smaller as the overtime clock runs down; of two
\* readings the later one never gets the larger time_left.
C12_TimeLeftFormula ==
    /\ \A i \in Computed : \A t \in ReadingsOf(i) :
           /\ Loc(drives_df, i).time_left = 900 * (4 - t[1]) + 60 * t[2] + t[3]
           /\ t = <<1, 15, 0>> => Loc(drives_df, i).time_left = 3600
           /\ t = <<4, 0, 0>> => Loc(drives_df, i).time_left = 0
           /\ t[1] = 5 => Loc(drives_df, i).time_left <= 0
    /\ \A i, j \in Computed : \A t \in ReadingsOf(i), u \in ReadingsOf(j) :
           /\ NoLater(t, u) => Loc(drives_df, i).time_left >= Loc(drives_df, j).time_left
           /\ (t[1] = 5 /\ u[1] = 5 /\ 60 * t[2] + t[3] > 60 * u[2] + u[3])
                 => Loc(drives_df, i).time_left > Loc(drives_df, j).time_left

\* an overtime row and a fourth-quarter 15:00 row after a third-quarter 0:00
\* row have their time_left
C12_Witness ==
    /\ Prepared
    /\ \E i, j, k \in Computed :
           /\ ReadingsOf(i) = {<<3, 0, 0>>} /\ ReadingsOf(j) = {<<4, 15, 0>>}
           /\ Loc(drives_df, i).time_left = Loc(drives_df, j).time_left
           /\ ReadingsOf(k) = {<<5, 7, 30>>}
           /\ Loc(drives_df, k).time_left = 0 - 450

\* the quarter cell of label i was empty in drives.csv
WasMissing(i) == csv[i + 1].quarter = <<>>

\* fill_in_missing_quarters ended in the KeyError
FillFailed ==
    /\ script = "clean_drives"
    /\ pc = "crashed"
    /\ \E i \in Labels(drives_df) : Loc(drives_df, i).quarter = NaN

FillDone == script = "clean_drives" /\ pc \in {"add_time_left", "prepared"}

\* the nearest row before label i, in i's game, whose quarter cell was filled
NearestKnown(i) ==
    {j \in Labels(drives_df) :
        /\ j < i
        /\ csv[j + 1].game_id = csv[i + 1].game_id
        /\ ~WasMissing(j)
        /\ \A k \in Labels(drives_df) :
               (j < k /\ k < i /\ csv[k + 1].game_id = csv[i + 1].game_id)
                 => WasMissing(k)}

\* C14: fill_in_missing_quarters never fails, also on a missing quarter in the
\* first row, and afterwards no quarter is missing and every row whose quarter
\* was missing holds the quarter of the nearest earlier row of its own game
\* that had one.
C14_FilledFromOwnGame ==
    /\ ~FillFailed
    /\ FillDone =>
           \A i \in Labels(drives_df) :
               /\ Loc(drives_df, i).quarter # NaN
               /\ WasMissing(i) =>
                      \E j \in NearestKnown(i) :
                          Loc(drives_df, i).quarter = ReadNumber(csv[j + 1].quarter)

----------------------------------------------------------------------------
(* Properties of the clocks and team names of clean_penalties.main *)

InCleanPenalties == script = "clean_penalties"

\* the rows that main has taken through its passes, each with the row as
\* read, after generate_game_id, after verify_and_adjust_game_id and with its
\* time_left
Cleaned == {penalties[i] : i \in 1..Len(penalties)}

\* the clock of the row is m:ss
WellFormed(e) == time_left(e.raw.quarter, e.raw.time).end = "next"

\* C13: for the same quarter and clock, compute_time_left_helper gives a
\* penalty the value that add_time_left gives a drive: the same number of
\* seconds with the same sign, so that the penalty loop compares like with
\* like.
C13_SameSecondsAsDrive ==
    InCleanPenalties =>
        \A e \in Cleaned :
            WellFormed(e) =>
                /\ e.time_left.t = "int"
                /\ e.time_left.v = time_left(e.raw.quarter, e.raw.time).v

Unlisted(e) ==
    e.raw.Team \notin DOMAIN team_id_mapping \/ e.raw.Opp \notin DOMAIN opp_id_mapping

TeamTableCleaned == script = "clean_team_performances" /\ pc = "cleaned"

\* the two team fields of a game id
TeamsOf(g) == {Split(g, "_")[3], Split(g, "_")[4]}

MalformedPenalty ==
    /\ InCleanPenalties
    /\ Len(penalties) > 0
    /\ ~WellFormed(penalties[Len(penalties)])

\* add_time_left has come to label i
Reached(i) ==
    /\ script = "clean_drives"
    /\ \/ pc = "prepared"
       \/ pc = "add_time_left" /\ i < n
       \/ pc = "crashed" /\ ~FillFailed /\ i < n

MalformedDrive(i) ==
    time_left(Loc(drives_df, i).quarter, Loc(drives_df, i).time).end # "next"

----------------------------------------------------------------------------
(* Properties of preprocess_data and of the counter columns *)

InPreprocess == script = "clean_games" /\ pc \in {"loop", "done"}

\* the rows of penalty_df that are penalties of phase ph of the team and game
\* of a row of df
PenaltiesOf(r, ph) ==
    {i \in 1..Len(penalties) :
        /\ penalties[i].game_id = r.game_id
        /\ penalties[i].team_id = r.team_id
        /\ penalties[i].phase = ph}

RECURSIVE SumYardage(_)
SumYardage(I) ==
    IF I = {} THEN 0
    ELSE LET i == CHOOSE x \in I : TRUE
         IN  penalties[i].yardage + SumYardage(I \ {i})

\* C15: in the table preprocess_data returns, total_off_pen and total_def_pen
\* of a row are the numbers of Off and Def penalties of its team in its game,
\* those of categories with fewer than 50 occurrences included, and the two
\* yards totals are the sums of their yardage.
C15_TotalsCountEveryPenalty ==
    (script = "clean_games" /\ pc = "done") =>
        \A k \in 1..Len(csv) :
            /\ csv[k].total_off_pen = Cardinality(PenaltiesOf(csv[k], "Off"))
            /\ csv[k].total_def_pen = Cardinality(PenaltiesOf(csv[k], "Def"))
            /\ csv[k].total_off_pen_yards = SumYardage(PenaltiesOf(csv[k], "Off"))
            /\ csv[k].total_def_pen_yards = SumYardage(PenaltiesOf(csv[k], "Def"))

\* the penalties folded so far that are penalties of category c of the team
\* and game of a row of df
FoldedOn(r, c) ==
    LET folded == SubSeq(filtered_penalties(penalties), 1, n)
    IN  {i \in 1..n :
            /\ folded[i].game_id = r.game_id
            /\ folded[i].team_id = r.team_id
            /\ folded[i].penalty = c}

\* the categories of penalty_df that are not special teams and occur at least
\* 50 times
ColumnCategories ==
    {c \in {penalties[i].penalty : i \in 1..Len(penalties)} :
        /\ \E i \in 1..Len(penalties) :
               penalties[i].penalty = c /\ penalties[i].phase # "ST"
        /\ value_counts(penalties, c) >= 50}

----------------------------------------------------------------------------
(* Properties of the penalty loop of clean_team_performances.main *)

InTeamPerf == script = "clean_team_performances" /\ n > 0

\* the rows of the game that the last penalty was found in
FoundRows ==
    IF game_id_to_row(team_performances_df, row.Game_ID) # NoLabels
    THEN game_id_to_row(team_performances_df, row.Game_ID)
    ELSE game_id_to_row(team_performances_df, row.Reverse_Game_ID)

\* C20: a penalty whose game is found increments by 1 the counter of the row
\* of that game whose team_id is the penalty's Team_ID, and is never counted
\* on the row of the other team: not when its Team_ID is the team_id of
\* neither row, and not when the game has one row only.
C20_CountedOnOwnTeamRow ==
    (InTeamPerf /\ FoundRows # NoLabels) =>
        /\ pc # "crashed"
        /\ \A t \in touched : Loc(team_performances_df, t[1]).team_id = row.Team_ID
        /\ (\E k \in 1..Len(FoundRows) :
                Loc(team_performances_df, FoundRows[k]).team_id = row.Team_ID)
              => \E k \in 1..Len(FoundRows) :
                     /\ Loc(team_performances_df, FoundRows[k]).team_id = row.Team_ID
                     /\ touched = {<<FoundRows[k], row.Phase_Penalty, 1>>}

----------------------------------------------------------------------------
(* Properties of the update of scrape_penalties.main *)

\* the rows of a file as pd.read_csv gives them, a numeric cell by its value
Values(file) ==
    [i \in 1..Len(file.rows) |->
        [Year |-> file.rows[i].Year, Num |-> file.rows[i].Num,
         Yds  |-> read_csv(file.rows)[i].Yds.v]]

\* the scraped rows in the same form
ScrapedValues(data) ==
    [i \in 1..Len(data) |->
        [Year |-> data[i].Year, Num |-> data[i].Num,
         Yds  |-> ReadFloat(data[i].Yds.v)]]

Before(df, year) == LET Old(r) == r.Year < year IN SelectSeq(df, Old)
From(df, year) == LET New(r) == r.Year >= year IN SelectSeq(df, New)

NoRowTwice(df) == \A i, j \in 1..Len(df) : df[i] = df[j] => i = j

\* a run of main that wrote the file
Updated == script = "scrape_penalties" /\ n' = n + 1 /\ pc' = "done"

\* what every such run does: the rows of the years before start_year stay,
\* the rows from start_year on are the scraped ones, no row is there twice
ReplacesStartYear ==
    Updated =>
        /\ Before(Values(csv'), get_start_year(csv))
               = Before(Values(csv), get_start_year(csv))
        /\ From(Values(csv'), get_start_year(csv)) = ScrapedValues(penalties')
        /\ NoRowTwice(Values(csv'))

SecondRun == script = "scrape_penalties" /\ n = 1 /\ n' = 2

\* C19 as stated: the second of two runs on the same site leaves the rows of
\* the first; a run keeps the rows with Year below start_year, replaces those
\* of start_year by the scraped ones, and leaves no row twice.
C19_SecondRunChangesNothing ==
    [][/\ ReplacesStartYear
       /\ SecondRun => Rows(Values(csv')) = Rows(Values(csv))]_vars

\* The same holds of a first run that scraped at least one row.  After a
\* first run that scraped none, the second starts at the latest year left in
\* the file and replaces that year's rows by what the site shows for it.
SecondRunChangesNothingAfterRows ==
    [][/\ ReplacesStartYear
       /\ (SecondRun /\ Len(penalties) > 0)
              => Rows(Values(csv')) = Rows(Values(csv))]_vars

----------------------------------------------------------------------------
(* Properties of scrape_games.main *)

InScrape == script = "scrape_games" /\ pc \in {"get_html_source", "join", "parse", "export", "done"}

FileNames == {"game_detail", "team_performances", "drives"}

RowsOf(file) == {file.rows[i] : i \in 1..Len(file.rows)}

\* C21: a run of scrape_games.main removes no row from game_detail.csv,
\* team_performances.csv or drives.csv: after the export_data calls every row
\* that was in a file before is still in it, whichever pages loaded, failed
\* to load or raised during parsing.
C21_ExportKeepsRows ==
    [][(InScrape /\ pc' = "done") =>
          \A name \in FileNames : RowsOf(csv[name]) \subseteq RowsOf(csv'[name])]_vars

Exporting == InScrape /\ pc \in {"export", "done"}

GamesIn(list) == {list[i].game_id : i \in 1..Len(list)}

RowsOfGame(list, g) == {i \in 1..Len(list) : list[i].game_id = g}

\* C22: when the loop of scrape_games.main has ended, every game_id in
\* all_game_details has exactly two rows in all_team_performance and the
\* drives of its home and of its away team in all_drives.
C22_BatchesOfTheSameGames ==
    Exporting =>
        \A g \in GamesIn(batches.all_game_details) :
            /\ Cardinality(RowsOfGame(batches.all_team_performance, g)) = 2
            /\ \A team \in {Split(g, "_")[3], Split(g, "_")[4]} :
                   \E i \in RowsOfGame(batches.all_drives, g) :
                       batches.all_drives[i].team_id = team

\* C23: get_html_source returns a page source only when the load of its url
\* ended without an exception within the timeouts, and None otherwise; and no
\* load thread of an earlier call is still using the driver when a later call
\* has started its own.
C23_SourceOnlyOfALoadedPage ==
    InScrape =>
        /\ pc = "parse" =>
               /\ html_source # None
               /\ driver.outcome[n + 1] = "loaded"
        /\ Cardinality(driver.loading) <= 1

====
